---- MODULE Spec2Model ----
(***************************************************************************)
(* Model of src/file/credential.rs of awsp: parse_credentials_file and the *)
(* streaming loop that groups key lines under profile headers.             *)
(*                                                                         *)
(* A line of text is a sequence of tokens.  A token is either one          *)
(* character ("[", "]", "#", ";", " ", "=", a letter) or one atomic word   *)
(* (a key name such as "aws_access_key_id", a profile name, "profile").    *)
(* The string operations of the code (to_ascii_lowercase, contains, split  *)
(* on the first "=", trim) are computed on these sequences.                *)
(***************************************************************************)
EXTENDS Integers, Sequences, FiniteSets, TLC

VARIABLES
    path,                       \* what credential_file_path designates
    pc,                         \* position inside parse_credentials_file
    opened,                     \* create_file_reader_for has been called
    read,                       \* the lines the reader has yielded so far
    io_failed,                  \* the reader yielded an Err item
    profile_credentials_map,    \* local of create_profile_credentials_map_from
    aws_profile_credential,     \* local of create_profile_credentials_map_from
    result                      \* what the caller of parse_credentials_file observes

vars == <<path, pc, opened, read, io_failed, profile_credentials_map,
          aws_profile_credential, result>>

-----------------------------------------------------------------------------
(* Bounds *)

MaxLines == 4

MaxRedeclareLines == 7

-----------------------------------------------------------------------------
(* Option<T>: None is the empty sequence, Some(v) the one-element sequence *)

None == <<>>

Some(v) == <<v>>

Unwrap(o) == o[1]

-----------------------------------------------------------------------------
(* Strings *)

Min(S) == CHOOSE x \in S : \A y \in S : x <= y

Max(S) == CHOOSE x \in S : \A y \in S : x >= y

\* char::to_ascii_lowercase, token by token
LowerToken(c) ==
    CASE c = "X" -> "x"
      [] c = "Y" -> "y"
      [] c = "AWS_ACCESS_KEY_ID" -> "aws_access_key_id"
      [] c = "AWS_SECRET_ACCESS_KEY" -> "aws_secret_access_key"
      [] OTHER -> c

to_ascii_lowercase(line) == [i \in 1..Len(line) |-> LowerToken(line[i])]

\* str::contains for an atomic word
Contains(line, word) == \E i \in 1..Len(line) : line[i] = word

\* str::trim
Trim(s) ==
    LET keep == {i \in 1..Len(s) : s[i] /= " "}
    IN  IF keep = {} THEN <<>> ELSE SubSeq(s, Min(keep), Max(keep))

-----------------------------------------------------------------------------
(* crate::file::helper::line *)

is_comment_or_empty(line) ==
    LET t == Trim(line)
    IN  IF t = <<>> THEN TRUE ELSE t[1] \in {"#", ";"}

is_profile(line) ==
    LET t == Trim(line)
    IN  Len(t) >= 2 /\ t[1] = "[" /\ t[Len(t)] = "]"

get_profile_name_from(line) ==
    LET t == Trim(line)
        inner == SubSeq(t, 2, Len(t) - 1)
        stripped == IF Len(inner) >= 2 /\ inner[1] = "profile" /\ inner[2] = " "
                    THEN SubSeq(inner, 3, Len(inner))
                    ELSE inner
        name == Trim(stripped)
    IN  IF ~is_profile(line) \/ name = <<>> THEN None ELSE Some(name)

extract_value_from(line) ==
    LET eq == {i \in 1..Len(line) : line[i] = "="}
    IN  IF eq = {} THEN None
        ELSE Some(Trim(SubSeq(line, Min(eq) + 1, Len(line))))

-----------------------------------------------------------------------------
(* crate::file::credential::aws_profile_credential::AwsProfileCredential *)

AwsProfileCredential_new ==
    [profile_name |-> None, access_key |-> None, secret_key |-> None, token |-> None]

new_with_profile_name(name) ==
    [profile_name |-> Some(name), access_key |-> None, secret_key |-> None,
     token |-> None]

into_aws_credential(c) ==
    IF c.access_key /= None /\ c.secret_key /= None
    THEN Some([key |-> Unwrap(c.access_key), secret |-> Unwrap(c.secret_key),
               token |-> c.token])
    ELSE None

-----------------------------------------------------------------------------
(* HashMap<String, AwsCredentials> *)

EmptyMap == [n \in {} |-> None]

Insert(m, k, v) == [n \in DOMAIN m \cup {k} |-> IF n = k THEN v ELSE m[n]]

-----------------------------------------------------------------------------
(* src/file/credential.rs *)

is_aws_access_key(line) == Contains(line, "aws_access_key_id")

is_aws_secret_key(line) == Contains(line, "aws_secret_access_key")

is_aws_token(line) ==
    Contains(line, "aws_session_token") \/ Contains(line, "aws_security_token")

\* try_assign_aws_profile_credential_from whose last branch forgets to test
\* is_aws_token
try_assign_any_line_as_token(line, c) ==
    LET lower_case_line == to_ascii_lowercase(line)
    IN  IF is_aws_access_key(lower_case_line) /\ c.access_key = None
        THEN [c EXCEPT !.access_key = extract_value_from(lower_case_line)]
        ELSE IF is_aws_secret_key(lower_case_line) /\ c.secret_key = None
        THEN [c EXCEPT !.secret_key = extract_value_from(lower_case_line)]
        ELSE IF c.token = None
        THEN [c EXCEPT !.token = extract_value_from(lower_case_line)]
        ELSE c

\* try_assign_aws_profile_credential_from with three independent ifs in place
\* of the if / else-if chain
try_assign_every_match(line, c) ==
    LET lower_case_line == to_ascii_lowercase(line)
        value == extract_value_from(lower_case_line)
    IN  [c EXCEPT
           !.access_key = IF is_aws_access_key(lower_case_line) /\ c.access_key = None
                          THEN value ELSE @,
           !.secret_key = IF is_aws_secret_key(lower_case_line) /\ c.secret_key = None
                          THEN value ELSE @,
           !.token = IF is_aws_token(lower_case_line) /\ c.token = None
                     THEN value ELSE @]

\* try_assign_aws_profile_credential_from without the is_none() tests
try_assign_overwriting(line, c) ==
    LET lower_case_line == to_ascii_lowercase(line)
    IN  IF is_aws_access_key(lower_case_line)
        THEN [c EXCEPT !.access_key = extract_value_from(lower_case_line)]
        ELSE IF is_aws_secret_key(lower_case_line)
        THEN [c EXCEPT !.secret_key = extract_value_from(lower_case_line)]
        ELSE IF is_aws_token(lower_case_line)
        THEN [c EXCEPT !.token = extract_value_from(lower_case_line)]
        ELSE c

try_assign_aws_profile_credential_from(line, c) ==
    LET lower_case_line == to_ascii_lowercase(line)
    IN  IF is_aws_access_key(lower_case_line) /\ c.access_key = None
        THEN [c EXCEPT !.access_key = extract_value_from(lower_case_line)]
        ELSE IF is_aws_secret_key(lower_case_line) /\ c.secret_key = None
        THEN [c EXCEPT !.secret_key = extract_value_from(lower_case_line)]
        ELSE IF is_aws_token(lower_case_line) /\ c.token = None
        THEN [c EXCEPT !.token = extract_value_from(lower_case_line)]
        ELSE c

\* try_insert_profile_credential_to that inserts every named draft, with
\* empty strings for the keys it lacks
try_insert_any_named(m, c) ==
    IF c.profile_name /= None
    THEN Insert(m, Unwrap(c.profile_name),
                [key |-> IF c.access_key = None THEN <<>> ELSE Unwrap(c.access_key),
                 secret |-> IF c.secret_key = None THEN <<>> ELSE Unwrap(c.secret_key),
                 token |-> c.token])
    ELSE m

\* try_insert_profile_credential_to that removes the entry of a name whose
\* draft is incomplete
try_insert_or_remove(m, c) ==
    IF c.profile_name /= None /\ into_aws_credential(c) /= None
    THEN Insert(m, Unwrap(c.profile_name), Unwrap(into_aws_credential(c)))
    ELSE IF c.profile_name /= None
    THEN [n \in DOMAIN m \ {Unwrap(c.profile_name)} |-> m[n]]
    ELSE m

\* try_insert_profile_credential_to that files a draft without a name under
\* the empty name
try_insert_unnamed(m, c) ==
    IF into_aws_credential(c) /= None
    THEN Insert(m, IF c.profile_name = None THEN <<>> ELSE Unwrap(c.profile_name),
                Unwrap(into_aws_credential(c)))
    ELSE m

\* try_insert_profile_credential_to that keeps the entry a name already has
try_insert_keeping_first(m, c) ==
    IF c.profile_name /= None /\ into_aws_credential(c) /= None
           /\ Unwrap(c.profile_name) \notin DOMAIN m
    THEN Insert(m, Unwrap(c.profile_name), Unwrap(into_aws_credential(c)))
    ELSE m

try_insert_profile_credential_to(m, c) ==
    IF c.profile_name /= None /\ into_aws_credential(c) /= None
    THEN Insert(m, Unwrap(c.profile_name), Unwrap(into_aws_credential(c)))
    ELSE m

\* is_valid_file_path without the is_file() test
is_valid_file_path_any_kind(p) ==
    CASE p = "missing" ->
            [ok |-> FALSE, message |-> "Couldn't stat credentials file"]
      [] OTHER -> [ok |-> TRUE, message |-> ""]

\* fs::metadata(path) and metadata.is_file()
is_valid_file_path(p) ==
    CASE p = "missing" ->
            [ok |-> FALSE, message |-> "Couldn't stat credentials file"]
      [] p = "directory" ->
            [ok |-> FALSE, message |-> "is not a file"]
      [] OTHER -> [ok |-> TRUE, message |-> ""]

\* The loop body without the `continue` on comment and blank lines
LoopBodyWithoutSkip(m, c, line, line_no) ==
    IF is_profile(line)
    THEN IF get_profile_name_from(line) = None
         THEN [map |-> try_insert_profile_credential_to(m, c), cred |-> c,
               panic |-> Some([message |-> "Cannot get profile name",
                               line |-> line_no])]
         ELSE [map |-> try_insert_profile_credential_to(m, c),
               cred |-> new_with_profile_name(Unwrap(get_profile_name_from(line))),
               panic |-> None]
    ELSE [map |-> m, cred |-> try_assign_aws_profile_credential_from(line, c),
          panic |-> None]

\* The loop body with a header branch that renames the draft instead of
\* replacing it
LoopBodyKeepingFields(m, c, line, line_no) ==
    IF is_comment_or_empty(line)
    THEN [map |-> m, cred |-> c, panic |-> None]
    ELSE IF is_profile(line)
    THEN IF get_profile_name_from(line) = None
         THEN [map |-> try_insert_profile_credential_to(m, c), cred |-> c,
               panic |-> Some([message |-> "Cannot get profile name",
                               line |-> line_no])]
         ELSE [map |-> try_insert_profile_credential_to(m, c),
               cred |-> [c EXCEPT !.profile_name = get_profile_name_from(line)],
               panic |-> None]
    ELSE [map |-> m, cred |-> try_assign_aws_profile_credential_from(line, c),
          panic |-> None]

\* The loop body with an insert after every key line as well
LoopBodyEagerCommit(m, c, line, line_no) ==
    IF is_comment_or_empty(line)
    THEN [map |-> m, cred |-> c, panic |-> None]
    ELSE IF is_profile(line)
    THEN IF get_profile_name_from(line) = None
         THEN [map |-> try_insert_profile_credential_to(m, c), cred |-> c,
               panic |-> Some([message |-> "Cannot get profile name",
                               line |-> line_no])]
         ELSE [map |-> try_insert_profile_credential_to(m, c),
               cred |-> new_with_profile_name(Unwrap(get_profile_name_from(line))),
               panic |-> None]
    ELSE [map |-> try_insert_profile_credential_to(
                      m, try_assign_aws_profile_credential_from(line, c)),
          cred |-> try_assign_aws_profile_credential_from(line, c),
          panic |-> None]

\* One iteration of the for loop over the reader's lines, for an Ok(line)
\* item at index line_no: the new map, the new draft, and whether it panicked.
LoopBody(m, c, line, line_no) ==
    IF is_comment_or_empty(line)
    THEN [map |-> m, cred |-> c, panic |-> None]
    ELSE IF is_profile(line)
    THEN IF get_profile_name_from(line) = None
         THEN [map |-> try_insert_profile_credential_to(m, c), cred |-> c,
               panic |-> Some([message |-> "Cannot get profile name",
                               line |-> line_no])]
         ELSE [map |-> try_insert_profile_credential_to(m, c),
               cred |-> new_with_profile_name(Unwrap(get_profile_name_from(line))),
               panic |-> None]
    ELSE [map |-> m, cred |-> try_assign_aws_profile_credential_from(line, c),
          panic |-> None]

\* The tail of parse_credentials_file without the is_empty() test
ParseResultUnchecked(m) == [kind |-> "Ok", message |-> "", value |-> m, line |-> None]

\* The tail of parse_credentials_file, once the map has been built
ParseResult(m) ==
    IF m = EmptyMap
    THEN [kind |-> "Err", message |-> "No credentials found.", value |-> EmptyMap,
          line |-> None]
    ELSE [kind |-> "Ok", message |-> "", value |-> m, line |-> None]

\* The Err arm of parse_credentials_file
PathError(p) ==
    [kind |-> "Err", message |-> is_valid_file_path(p).message, value |-> EmptyMap,
     line |-> None]

\* parse_credentials_file has not returned
Pending == [kind |-> "Pending", message |-> "", value |-> EmptyMap, line |-> None]

\* panic!("...: {}", line_no): the call never returns
Panicked(p) == [kind |-> "Panic", message |-> p.message, value |-> EmptyMap,
                line |-> Some(p.line)]

\* The state of the loop after the reader yielded the lines ls, all Ok
RECURSIVE LoopState(_)
LoopState(ls) ==
    IF ls = <<>>
    THEN [map |-> EmptyMap, cred |-> AwsProfileCredential_new, panic |-> None]
    ELSE LET before == LoopState(SubSeq(ls, 1, Len(ls) - 1))
         IN  IF before.panic /= None THEN before
             ELSE LoopBody(before.map, before.cred, ls[Len(ls)], Len(ls) - 1)

\* create_profile_credentials_map_from on a reader that yields the lines ls
create_profile_credentials_map_from(ls) ==
    LET last == LoopState(ls)
    IN  IF last.panic /= None THEN last
        ELSE [last EXCEPT !.map = try_insert_profile_credential_to(last.map, last.cred)]

\* parse_credentials_file on a path of kind p whose reader yields the lines ls
parse_credentials_file(p, ls) ==
    IF ~is_valid_file_path(p).ok THEN PathError(p)
    ELSE LET built == create_profile_credentials_map_from(ls)
         IN  IF built.panic /= None THEN Panicked(Unwrap(built.panic))
             ELSE ParseResult(built.map)

-----------------------------------------------------------------------------
(* The lines a credentials file is made of *)

AccessLine == <<"aws_access_key_id", " ", "=", " ", "x">>
UpperAccessLine == <<"AWS_ACCESS_KEY_ID", "=", "X">>
OtherAccessLine == <<"aws_access_key_id", "=", "w">>
SecretLine == <<"aws_secret_access_key", "=", "y">>
NestedSecretLine == <<"aws_secret_access_key", "=", "aws_access_key_id">>
SessionTokenLine == <<"aws_session_token", "=", "t">>
SecurityTokenLine == <<"aws_security_token", "=", "u">>
RegionLine == <<"region", "=", "r">>
FooHeader == <<"[", "foo", "]">>
BarHeader == <<"[", "profile", " ", "bar", "]">>
EmptyHeader == <<"[", "]">>
BlankLine == <<" ">>
CommentLine == <<"#", "aws_access_key_id", "=", "x">>

Lines ==
    {AccessLine, UpperAccessLine, OtherAccessLine, SecretLine, NestedSecretLine, SessionTokenLine,
     SecurityTokenLine, RegionLine, FooHeader, BarHeader, EmptyHeader,
     BlankLine, CommentLine}

RedeclareLines ==
    {FooHeader, AccessLine, SecretLine, SessionTokenLine}

PathKinds == {"missing", "directory", "file"}

-----------------------------------------------------------------------------
(* Actions *)

Init ==
    /\ path \in PathKinds
    /\ pc = "start"
    /\ opened = FALSE
    /\ read = <<>>
    /\ io_failed = FALSE
    /\ profile_credentials_map = EmptyMap
    /\ aws_profile_credential = AwsProfileCredential_new
    /\ result = Pending

\* parse_credentials_file, up to the match on is_valid_file_path
Validate ==
    /\ pc = "start"
    /\ IF is_valid_file_path(path).ok
       THEN /\ pc' = "validated"
            /\ UNCHANGED result
       ELSE /\ pc' = "done"
            /\ result' = PathError(path)
    /\ UNCHANGED <<path, opened, read, io_failed, profile_credentials_map,
                   aws_profile_credential>>

\* create_profile_credentials_map_from, up to the for loop
Open ==
    /\ pc = "validated"
    /\ pc' = "loop"
    /\ opened' = TRUE
    /\ profile_credentials_map' = EmptyMap
    /\ aws_profile_credential' = AwsProfileCredential_new
    /\ UNCHANGED <<path, read, io_failed, result>>

\* One iteration of the loop on an Ok(line) item
Iterate(line) ==
    /\ pc = "loop"
    /\ LET r == LoopBody(profile_credentials_map, aws_profile_credential, line,
                         Len(read))
       IN  /\ profile_credentials_map' = r.map
           /\ aws_profile_credential' = r.cred
           /\ IF r.panic = None
              THEN pc' = "loop" /\ UNCHANGED result
              ELSE pc' = "panicked" /\ result' = Panicked(Unwrap(r.panic))
    /\ read' = Append(read, line)
    /\ UNCHANGED <<path, opened, io_failed>>

SkipLine(line) == is_comment_or_empty(line) /\ Iterate(line)

ProfileLine(line) ==
    /\ ~is_comment_or_empty(line)
    /\ is_profile(line)
    /\ get_profile_name_from(line) /= None
    /\ Iterate(line)

NamelessProfileLine(line) ==
    /\ ~is_comment_or_empty(line)
    /\ is_profile(line)
    /\ get_profile_name_from(line) = None
    /\ Iterate(line)

KeyLine(line) ==
    /\ ~is_comment_or_empty(line)
    /\ ~is_profile(line)
    /\ Iterate(line)

\* One iteration of the loop on an Err item: line.unwrap_or_else(panic)
ReadFailure ==
    /\ pc = "loop"
    /\ pc' = "panicked"
    /\ io_failed' = TRUE
    /\ result' = Panicked([message |-> "Failed to read credentials file",
                           line |-> Len(read)])
    /\ UNCHANGED <<path, opened, read, profile_credentials_map,
                   aws_profile_credential>>

\* Finish without the final insert of lines 83-84
FinishWithoutCommit ==
    /\ pc = "loop"
    /\ pc' = "done"
    /\ result' = ParseResult(profile_credentials_map)
    /\ UNCHANGED <<path, opened, read, io_failed, profile_credentials_map,
                   aws_profile_credential>>

\* The reader is exhausted: the final insert, then the tail of
\* parse_credentials_file
Finish ==
    /\ pc = "loop"
    /\ pc' = "done"
    /\ profile_credentials_map' =
           try_insert_profile_credential_to(profile_credentials_map,
                                            aws_profile_credential)
    /\ result' = ParseResult(profile_credentials_map')
    /\ UNCHANGED <<path, opened, read, io_failed, aws_profile_credential>>

Next ==
    \/ Validate
    \/ Open
    \/ \E line \in Lines : Len(read) < MaxLines /\ SkipLine(line)
    \/ \E line \in Lines : Len(read) < MaxLines /\ ProfileLine(line)
    \/ \E line \in Lines : Len(read) < MaxLines /\ NamelessProfileLine(line)
    \/ \E line \in Lines : Len(read) < MaxLines /\ KeyLine(line)
    \/ ReadFailure
    \/ Finish

Spec == Init /\ [][Next]_vars

\* Files that declare one profile name, possibly several times
NextRedeclare ==
    \/ Validate
    \/ Open
    \/ \E line \in RedeclareLines :
           Len(read) < MaxRedeclareLines /\ ProfileLine(line)
    \/ \E line \in RedeclareLines :
           Len(read) < MaxRedeclareLines /\ KeyLine(line)
    \/ Finish

SpecRedeclare == Init /\ [][NextRedeclare]_vars

-----------------------------------------------------------------------------
(* The file as the reader yielded it: header lines and the spans they open *)

IsHeader(line) == ~is_comment_or_empty(line) /\ is_profile(line)

Headers(ls) == {i \in 1..Len(ls) : IsHeader(ls[i])}

\* The index of the last line of the span that the header at h opens
SpanEnd(ls, h) ==
    LET later == {j \in Headers(ls) : j > h}
    IN  IF later = {} THEN Len(ls) ELSE Min(later) - 1

\* The key lines of the span that the header at h opens
SpanLines(ls, h) ==
    SelectSeq(SubSeq(ls, h + 1, SpanEnd(ls, h)),
              LAMBDA l : ~is_comment_or_empty(l))

RECURSIVE AssignAll(_, _)
AssignAll(lines, c) ==
    IF lines = <<>> THEN c
    ELSE AssignAll(Tail(lines),
                   try_assign_aws_profile_credential_from(Head(lines), c))

\* The draft that the span of the header at h has accumulated
SpanDraft(ls, h) ==
    AssignAll(SpanLines(ls, h),
              [AwsProfileCredential_new
                   EXCEPT !.profile_name = get_profile_name_from(ls[h])])

\* The span of the header at h has been handed to the insert
SpanCommitted(ls, h) == pc = "done" \/ \E j \in Headers(ls) : j > h

SpanComplete(ls, h) ==
    /\ SpanDraft(ls, h).profile_name /= None
    /\ SpanDraft(ls, h).access_key /= None
    /\ SpanDraft(ls, h).secret_key /= None

\* The record holds exactly the fields of the draft
RecordOf(record, draft) ==
    /\ Some(record.key) = draft.access_key
    /\ Some(record.secret) = draft.secret_key
    /\ record.token = draft.token

WithoutComments(ls) == SelectSeq(ls, LAMBDA l : ~is_comment_or_empty(l))

LastRead == read[Len(read)]

Fields == {"access_key", "secret_key", "token"}

-----------------------------------------------------------------------------
(* Properties *)

\* C1: every entry of the map, at any point of the parse and in the returned
\* result, comes from a committed span whose draft had a profile name, an
\* access key and a secret key; a profile whose spans all lack one of them
\* has no entry.
C1_OnlyCompleteProfiles ==
    /\ \A n \in DOMAIN profile_credentials_map :
           \E h \in Headers(read) :
               /\ get_profile_name_from(read[h]) = Some(n)
               /\ SpanCommitted(read, h)
               /\ SpanComplete(read, h)
               /\ RecordOf(profile_credentials_map[n], SpanDraft(read, h))
    /\ result.kind = "Ok" => result.value = profile_credentials_map

\* C1 witness: a returned map that holds one profile while another profile of
\* the same file, which lacked a key, is missing from it.
C1_Witness ==
    /\ pc = "done"
    /\ result.kind = "Ok"
    /\ \E h \in Headers(read) :
           /\ get_profile_name_from(read[h]) /= None
           /\ ~SpanComplete(read, h)
           /\ Unwrap(get_profile_name_from(read[h])) \notin DOMAIN result.value

\* C2: a line that is not a header never changes a field of the draft that is
\* already set, and the record committed for a draft holds the draft's fields.
C2_FirstWriteWins ==
    [][/\ (pc = "loop" /\ Len(read') = Len(read) + 1 /\ ~IsHeader(read'[Len(read')]))
              => \A f \in Fields :
                     aws_profile_credential[f] /= None
                         => aws_profile_credential'[f] = aws_profile_credential[f]
       /\ (pc = "loop" /\ profile_credentials_map' /= profile_credentials_map)
              => RecordOf(profile_credentials_map'[Unwrap(aws_profile_credential.profile_name)],
                          aws_profile_credential)
      ]_vars

\* C2 witness: a returned record whose span had two access-key lines with
\* different values, holding the value of the first.
C2_Witness ==
    /\ pc = "done"
    /\ result.kind = "Ok"
    /\ \E h \in Headers(read) :
           LET lines == SpanLines(read, h)
               name == get_profile_name_from(read[h])
           IN  /\ Len(lines) >= 2
               /\ lines[1] = AccessLine
               /\ lines[2] = OtherAccessLine
               /\ name /= None
               /\ Unwrap(name) \in DOMAIN result.value
               /\ Some(result.value[Unwrap(name)].key) = extract_value_from(AccessLine)

\* C3: the value a key line stores in the draft is the value written in the
\* line, character for character.
C3_ValueKeepsCase ==
    [][(pc = "loop" /\ Len(read') = Len(read) + 1 /\ ~IsHeader(read'[Len(read')]))
           => \A f \in Fields :
                  aws_profile_credential'[f] /= aws_profile_credential[f]
                      => aws_profile_credential'[f] = extract_value_from(read'[Len(read')])
      ]_vars

\* C4: a returned success never holds an empty map, and a file without a
\* complete profile returns the "No credentials found." error.
C4_NeverEmptySuccess ==
    /\ result.kind = "Ok" => result.value /= EmptyMap
    /\ (pc = "done" /\ path = "file"
            /\ \A h \in Headers(read) : ~SpanComplete(read, h))
           => result.kind = "Err" /\ result.message = "No credentials found."

\* C4 witness: a file of comment and blank lines only returned the error.
C4_Witness ==
    /\ pc = "done"
    /\ path = "file"
    /\ read /= <<>>
    /\ \A i \in 1..Len(read) : is_comment_or_empty(read[i])
    /\ result.kind = "Err"
    /\ result.message = "No credentials found."

\* C5: the draft, the map and the outcome of the parse are those of the same
\* file with its comment and blank lines removed (a panic is compared by its
\* message, not by the line index it reports).
C5_CommentsAreNoOps ==
    /\ pc = "loop"
           => /\ profile_credentials_map = LoopState(WithoutComments(read)).map
              /\ aws_profile_credential = LoopState(WithoutComments(read)).cred
    /\ (pc \in {"done", "panicked"} /\ ~io_failed)
           => LET other == parse_credentials_file(path, WithoutComments(read))
              IN  /\ result.kind = other.kind
                  /\ result.message = other.message
                  /\ result.value = other.value

\* C5 witness: a returned map of a file that has a comment line inside the
\* span of the profile it returned.
C5_Witness ==
    /\ pc = "done"
    /\ result.kind = "Ok"
    /\ \E h \in Headers(read) :
           /\ SpanComplete(read, h)
           /\ \E i \in h + 1..SpanEnd(read, h) : is_comment_or_empty(read[i])

\* The headers of ls that declare the profile name n
HeadersOf(ls, n) == {h \in Headers(ls) : get_profile_name_from(ls[h]) = Some(n)}

Names(ls) ==
    {Unwrap(get_profile_name_from(ls[h])) :
         h \in {g \in Headers(ls) : get_profile_name_from(ls[g]) /= None}}

\* C6 as stated: when a name is declared by two or more headers, the record
\* returned under it holds the fields of the last of its spans, whatever
\* fields the spans carry.
C6_LastSpanReplaces ==
    pc = "done" =>
        \A n \in DOMAIN result.value :
            Cardinality(HeadersOf(read, n)) >= 2
                => RecordOf(result.value[n], SpanDraft(read, Max(HeadersOf(read, n))))

\* C6 amended: the record returned under a name holds the fields of the last
\* span of that name that has an access key and a secret key, and of that span
\* only; a name none of whose spans has both is not in the map.
C6_LastCompleteSpanReplaces ==
    (pc = "done" /\ path = "file") =>
        \A n \in Names(read) :
            LET complete == {h \in HeadersOf(read, n) : SpanComplete(read, h)}
            IN  IF complete = {}
                THEN n \notin DOMAIN result.value
                ELSE /\ n \in DOMAIN result.value
                     /\ RecordOf(result.value[n], SpanDraft(read, Max(complete)))

\* C6 witness: a name declared twice, both spans complete, with a token in the
\* first span only; the returned record is the second span's and has no token.
C6_Witness ==
    /\ pc = "done"
    /\ result.kind = "Ok"
    /\ \E n \in DOMAIN result.value :
           \E h1, h2 \in HeadersOf(read, n) :
               /\ h1 < h2
               /\ SpanComplete(read, h1)
               /\ SpanComplete(read, h2)
               /\ SpanDraft(read, h1).token /= None
               /\ SpanDraft(read, h2).token = None
               /\ result.value[n].token = None
               /\ RecordOf(result.value[n], SpanDraft(read, h2))
               /\ ~RecordOf(result.value[n], SpanDraft(read, h1))

\* C7: when the path is missing or is not a regular file the reader is never
\* opened, no line is read and the call returns the path's error; the reader
\* is opened only for a regular file.
C7_ValidationBeforeRead ==
    /\ path = "missing"
           => /\ ~opened /\ read = <<>> /\ ~io_failed
              /\ pc = "done" => /\ result.kind = "Err"
                                /\ result.message = "Couldn't stat credentials file"
    /\ path = "directory"
           => /\ ~opened /\ read = <<>> /\ ~io_failed
              /\ pc = "done" => /\ result.kind = "Err"
                                /\ result.message = "is not a file"
    /\ opened => path = "file" /\ pc \notin {"start", "validated"}
    /\ read /= <<>> => opened

\* C7 witness: the call returned for a path that is not a regular file.
C7_Witness ==
    /\ pc = "done"
    /\ path = "directory"
    /\ result.kind = "Err"
    /\ ~opened

\* C8: after the reader failed on a line the call has returned an error
\* result; it neither returns a map nor ends without returning.
C8_ReadFailureReturnsError ==
    io_failed => pc = "done" /\ result.kind = "Err"

\* C9: after a line that is a header by is_profile but has no name by
\* get_profile_name_from, the call has returned an error result.
C9_MalformedHeaderReturnsError ==
    (read /= <<>> /\ IsHeader(LastRead) /\ get_profile_name_from(LastRead) = None)
        => pc = "done" /\ result.kind = "Err"

\* The key of a key line: the text before the first "=", trimmed, lowercased
KeyOf(line) ==
    LET eq == {i \in 1..Len(line) : line[i] = "="}
    IN  IF eq = {} THEN <<>>
        ELSE to_ascii_lowercase(Trim(SubSeq(line, 1, Min(eq) - 1)))

\* The value of the first line of the span at h whose key is one of keys
FirstValue(ls, h, keys) ==
    LET lines == SpanLines(ls, h)
        at == {i \in 1..Len(lines) : KeyOf(lines[i]) \in keys}
    IN  IF at = {} THEN None ELSE extract_value_from(lines[Min(at)])

AccessKeyNames == {<<"aws_access_key_id">>}

SecretKeyNames == {<<"aws_secret_access_key">>}

TokenNames == {<<"aws_session_token">>, <<"aws_security_token">>}

\* C10: for a file whose headers have pairwise distinct names and whose spans
\* each have an access-key line and a secret-key line, the returned map has
\* one entry per span, holding the access key and the secret key written in
\* that span, and no token when the span has no token line.
C10_OneRecordPerProfile ==
    (/\ pc = "done"
     /\ Headers(read) /= {}
     /\ \A h \in Headers(read) :
            /\ get_profile_name_from(read[h]) /= None
            /\ HeadersOf(read, Unwrap(get_profile_name_from(read[h]))) = {h}
            /\ FirstValue(read, h, AccessKeyNames) /= None
            /\ FirstValue(read, h, SecretKeyNames) /= None)
        => /\ result.kind = "Ok"
           /\ DOMAIN result.value = Names(read)
           /\ \A h \in Headers(read) :
                  LET record == result.value[Unwrap(get_profile_name_from(read[h]))]
                  IN  /\ Some(record.key) = FirstValue(read, h, AccessKeyNames)
                      /\ Some(record.secret) = FirstValue(read, h, SecretKeyNames)
                      /\ FirstValue(read, h, TokenNames) = None
                             => record.token = None

\* A step of the loop that processes a line which is neither a comment, nor
\* blank, nor a header
KeyLineStep ==
    /\ pc = "loop"
    /\ Len(read') = Len(read) + 1
    /\ ~is_comment_or_empty(read'[Len(read')])
    /\ ~is_profile(read'[Len(read')])

\* C11: a key line that matches the access-key, secret-key or token predicate
\* while that field of the draft is unset sets the field to the line's value,
\* also when the line matches more than one predicate (the value is compared
\* as the lowercased line gives it: its letter case is the subject of C3).
C11_MatchingLineSetsField ==
    [][KeyLineStep =>
           LET lower == to_ascii_lowercase(read'[Len(read')])
           IN  /\ (is_aws_access_key(lower) /\ aws_profile_credential.access_key = None)
                      => aws_profile_credential'.access_key = extract_value_from(lower)
               /\ (is_aws_secret_key(lower) /\ aws_profile_credential.secret_key = None)
                      => aws_profile_credential'.secret_key = extract_value_from(lower)
               /\ (is_aws_token(lower) /\ aws_profile_credential.token = None)
                      => aws_profile_credential'.token = extract_value_from(lower)
      ]_vars

\* C12: at end of input the last draft is committed as a header would commit
\* it: the returned map is the map that one more header line would have
\* produced, and a complete profile that is the last span of the file is in
\* the returned map with the fields of that span.
C12_LastDraftCommitted ==
    (pc = "done" /\ path = "file") =>
        /\ profile_credentials_map = LoopState(Append(read, FooHeader)).map
        /\ \A h \in Headers(read) :
               (h = Max(Headers(read)) /\ SpanComplete(read, h))
                   => LET name == Unwrap(get_profile_name_from(read[h]))
                      IN  /\ result.kind = "Ok"
                          /\ name \in DOMAIN result.value
                          /\ RecordOf(result.value[name], SpanDraft(read, h))

\* C12 witness: the call returned a map holding a profile whose only span is
\* the last span of the file.
C12_Witness ==
    /\ pc = "done"
    /\ result.kind = "Ok"
    /\ Headers(read) /= {}
    /\ LET h == Max(Headers(read))
       IN  /\ SpanComplete(read, h)
           /\ HeadersOf(read, Unwrap(get_profile_name_from(read[h]))) = {h}
           /\ Unwrap(get_profile_name_from(read[h])) \in DOMAIN result.value

\* C13: right after a header line the draft has the header's name and no
\* access key, secret key or token; at any point of the loop the draft holds
\* what the lines of the current span alone give; and every record of the map
\* holds the fields of one single span.
C13_HeaderStartsFreshDraft ==
    (pc = "loop" /\ Headers(read) /= {}) =>
        LET h == Max(Headers(read))
        IN  /\ h = Len(read)
                   => /\ aws_profile_credential.profile_name = get_profile_name_from(read[h])
                      /\ \A f \in Fields : aws_profile_credential[f] = None
            /\ aws_profile_credential = SpanDraft(read, h)
            /\ \A n \in DOMAIN profile_credentials_map :
                   \E g \in HeadersOf(read, n) :
                       g < h /\ RecordOf(profile_credentials_map[n], SpanDraft(read, g))

\* C13 witness: a header line was just read after a span that had set an
\* access key and a secret key and is now a record of the map.
C13_Witness ==
    /\ pc = "loop"
    /\ Headers(read) /= {}
    /\ Max(Headers(read)) = Len(read)
    /\ \E g \in Headers(read) :
           /\ g < Len(read)
           /\ SpanComplete(read, g)
           /\ Unwrap(get_profile_name_from(read[g])) \in DOMAIN profile_credentials_map
    /\ \A f \in Fields : aws_profile_credential[f] = None

\* The line matches none of the key names the parser knows
UnknownKey(line) ==
    /\ ~Contains(to_ascii_lowercase(line), "aws_access_key_id")
    /\ ~Contains(to_ascii_lowercase(line), "aws_secret_access_key")
    /\ ~Contains(to_ascii_lowercase(line), "aws_session_token")
    /\ ~Contains(to_ascii_lowercase(line), "aws_security_token")

\* C14: a line that is neither a header nor a comment and matches none of the
\* recognized key names changes neither the draft nor the map.
C14_UnknownKeyIgnored ==
    [][(KeyLineStep /\ UnknownKey(read'[Len(read')]))
           => /\ aws_profile_credential' = aws_profile_credential
              /\ profile_credentials_map' = profile_credentials_map
              /\ pc' = "loop"
      ]_vars

\* C14 witness: an unknown key line was read inside the span of a named
\* profile whose token is still unset.
C14_Witness ==
    /\ pc = "loop"
    /\ read /= <<>>
    /\ LastRead = RegionLine
    /\ aws_profile_credential.profile_name /= None
    /\ aws_profile_credential.access_key /= None
    /\ aws_profile_credential.token = None

\* A step of the loop that processes a header line
HeaderStep ==
    /\ pc = "loop"
    /\ Len(read') = Len(read) + 1
    /\ IsHeader(read'[Len(read')])

\* The reader is exhausted and parse_credentials_file returns
FinishStep == pc = "loop" /\ pc' = "done"

Incomplete(draft) ==
    \/ draft.profile_name = None
    \/ draft.access_key = None
    \/ draft.secret_key = None

\* C15: when the draft handed to the insert, at a header line or at end of
\* input, lacks a name, an access key or a secret key, the map stays exactly
\* as it was; after a named header the loop goes on with a fresh draft, and at
\* end of input the call returns what the unchanged map gives.
C15_IncompleteDraftDropped ==
    [][Incomplete(aws_profile_credential) =>
           /\ (HeaderStep \/ FinishStep)
                  => profile_credentials_map' = profile_credentials_map
           /\ (HeaderStep /\ get_profile_name_from(read'[Len(read')]) /= None)
                  => /\ pc' = "loop"
                     /\ aws_profile_credential'.profile_name
                            = get_profile_name_from(read'[Len(read')])
           /\ FinishStep
                  => /\ result'.kind = IF profile_credentials_map = EmptyMap
                                       THEN "Err" ELSE "Ok"
                     /\ result'.value = profile_credentials_map
      ]_vars

\* C15 witness: the call returned a map that still holds the record of a
\* profile whose last span, dropped at end of input, was incomplete.
C15_Witness ==
    /\ pc = "done"
    /\ result.kind = "Ok"
    /\ Headers(read) /= {}
    /\ Incomplete(aws_profile_credential)
    /\ aws_profile_credential.profile_name /= None
    /\ Unwrap(aws_profile_credential.profile_name) \in DOMAIN result.value

\* C16: a step that processes a key line, an unknown line, a comment or a
\* blank line leaves the map unchanged; a step that changes the map processes
\* a header line or the end of input, and it adds or overwrites the one entry
\* whose key is the name of the draft that was active before the step.
C16_MapChangesAtCommitOnly ==
    [][/\ (pc = "loop" /\ Len(read') = Len(read) + 1 /\ ~IsHeader(read'[Len(read')]))
              => profile_credentials_map' = profile_credentials_map
       /\ profile_credentials_map' /= profile_credentials_map
              => /\ HeaderStep \/ FinishStep
                 /\ aws_profile_credential.profile_name /= None
                 /\ DOMAIN profile_credentials_map'
                        = DOMAIN profile_credentials_map
                              \cup {Unwrap(aws_profile_credential.profile_name)}
                 /\ \A n \in DOMAIN profile_credentials_map :
                        n /= Unwrap(aws_profile_credential.profile_name)
                            => profile_credentials_map'[n] = profile_credentials_map[n]
      ]_vars

\* C16 witness: a header line of another name was just read and the map holds
\* the one entry of the span it closed.
C16_Witness ==
    /\ pc = "loop"
    /\ Headers(read) /= {}
    /\ Max(Headers(read)) = Len(read)
    /\ get_profile_name_from(LastRead) /= None
    /\ Unwrap(get_profile_name_from(LastRead)) \notin DOMAIN profile_credentials_map
    /\ Cardinality(DOMAIN profile_credentials_map) = 1

\* C17: the lines before the first header contribute nothing: without a
\* header the map stays empty; with one, the map, the draft and the returned
\* result are those of the file cut at its first header, and no entry is filed
\* under an empty name.
C17_PreambleIgnored ==
    /\ <<>> \notin DOMAIN profile_credentials_map
    /\ (pc \in {"loop", "done"} /\ Headers(read) = {})
           => /\ profile_credentials_map = EmptyMap
              /\ aws_profile_credential.profile_name = None
              /\ pc = "done" => result.kind = "Err"
    /\ (pc \in {"loop", "done"} /\ Headers(read) /= {})
           => LET rest == SubSeq(read, Min(Headers(read)), Len(read))
              IN  /\ pc = "loop"
                         => /\ profile_credentials_map = LoopState(rest).map
                            /\ aws_profile_credential = LoopState(rest).cred
                  /\ pc = "done"
                         => /\ result.kind = parse_credentials_file(path, rest).kind
                            /\ result.value = parse_credentials_file(path, rest).value

\* C17 witness: the call returned the record of the first profile of a file
\* that has an access-key line before its first header, and the record's
\* access key is not the value of that line.
C17_Witness ==
    /\ pc = "done"
    /\ result.kind = "Ok"
    /\ Headers(read) /= {}
    /\ LET first == Min(Headers(read))
           name == Unwrap(get_profile_name_from(read[first]))
       IN  /\ first > 1
           /\ name \in DOMAIN result.value
           /\ \E i \in 1..first - 1 :
                  /\ is_aws_access_key(to_ascii_lowercase(read[i]))
                  /\ ~is_comment_or_empty(read[i])
                  /\ Some(result.value[name].key)
                         /= extract_value_from(to_ascii_lowercase(read[i]))

\* C18: a step that processes a key line changes at most one of the access
\* key, the secret key and the token of the draft, and leaves its profile name
\* as it was, also when the line matches several key predicates.
C18_OneFieldPerLine ==
    [][KeyLineStep =>
           /\ Cardinality({f \in Fields :
                               aws_profile_credential'[f] /= aws_profile_credential[f]}) <= 1
           /\ aws_profile_credential'.profile_name = aws_profile_credential.profile_name
      ]_vars

\* C18 witness: a line matching the access-key and the secret-key predicate
\* was read in a named span with both fields unset, and only the access key
\* is set.
C18_Witness ==
    /\ pc = "loop"
    /\ read /= <<>>
    /\ is_aws_access_key(to_ascii_lowercase(LastRead))
    /\ is_aws_secret_key(to_ascii_lowercase(LastRead))
    /\ Len(read) >= 2
    /\ IsHeader(read[Len(read) - 1])
    /\ aws_profile_credential.profile_name /= None
    /\ aws_profile_credential.access_key /= None
    /\ aws_profile_credential.secret_key = None

====
